---- MODULE Spec2Model ----
(***************************************************************************)
(* Model of the n8n MCP stub servers:                                      *)
(*   - the stdio server   (src/unnamed/part_000, class MCPServer + main)   *)
(*   - the HTTP handler   (src/unnamed/part_001, class MCPServer + export) *)
(*   - the serverless stub (src/api/index.js)                              *)
(*                                                                         *)
(* JavaScript values are modelled by tokens: a string token stands for the *)
(* JSON value of that spelling, Undefined for an absent field / the value  *)
(* undefined, Null for null.  Text built by template literals is a         *)
(* sequence of string segments.  Header values and secrets, on which the   *)
(* code does prefix tests, slicing and trimming, are sequences of          *)
(* one-character strings.                                                  *)
(***************************************************************************)
EXTENDS Integers, Sequences, FiniteSets, TLC

VARIABLES
    tools,           \* stdio  MCPServer.tools (the descriptors, in order)
    httpTools,       \* HTTP   MCPServer.tools
    env,             \* process.env of the HTTP function after module load
    phase,           \* "idle", or which handler has just run: "stdio" | "http" | "api"
    line,            \* stdio: the input line just handled
    written,         \* stdio: messages written to standard output for that line
    logged,          \* stdio: number of console.error calls for that line
    invoked,         \* names of the MCPServer methods entered by the handler that just ran
    firstToolsList,  \* stdio: [seen, tools] the tools array of the first tools/list answer
    toolCalled,      \* stdio: TRUE once some tools/call line has been handled
    malformedSeen,   \* stdio: TRUE once a line that is not JSON has been handled
    transcript,      \* stdio: [on, handled, stdout] the input lines handled so far and
                     \*        everything written to standard output, kept when on
    httpReq,         \* HTTP handler: the request just handled
    httpRes,         \* HTTP handler: the response object after the handler returned
    apiReq,          \* api/index.js: the request just handled
    apiRes           \* api/index.js: the response object after the handler returned

vars == <<tools, httpTools, env, phase, line, written, logged, invoked,
          firstToolsList, toolCalled, malformedSeen, transcript,
          httpReq, httpRes, apiReq, apiRes>>

-----------------------------------------------------------------------------
(* JavaScript value tokens *)

Undefined == "<undefined>"
Null      == "<null>"

\* JavaScript truthiness of a token: undefined, null, '', 0 and false are falsy
Falsy(v) == v \in {Undefined, Null, "", "0", "false"}

\* a || b
OrElse(a, b) == IF Falsy(a) THEN b ELSE a

\* Array.prototype.join(', ') on an array of strings, as one text segment list
RECURSIVE Join(_)
Join(items) ==
    IF Len(items) = 0 THEN <<>>
    ELSE IF Len(items) = 1 THEN <<items[1]>>
    ELSE <<items[1], ", ">> \o Join(Tail(items))

-----------------------------------------------------------------------------
(* Tool catalogs *)

\* A descriptor keeps the fields the dispatcher and the claims refer to:
\* name, inputSchema.required and the enum of its (single) enumerated property.
Tool(n, req, en) == [name |-> n, required |-> req, enum |-> en]

StdioTools ==
    << Tool("list_nodes", <<>>, <<>>),
       Tool("get_node_info", <<"nodeName">>, <<>>),
       Tool("search_nodes", <<"query">>, <<>>),
       Tool("get_node_documentation", <<"nodeName">>, <<>>),
       Tool("list_node_categories", <<>>, <<>>),
       Tool("create_test_workflow", <<"workflowType">>,
            <<"webhook_to_slack", "manual_to_http", "schedule_to_email",
              "ai_agent", "data_processing">>),
       Tool("validate_workflow", <<"workflow">>, <<>>),
       Tool("get_workflow_template", <<"templateName">>,
            <<"webhook_slack", "email_processor", "data_sync", "ai_chatbot",
              "file_processor">>) >>

\* a catalog that also lists get_node_documentation
HttpTools_WithDocumentation ==
    << Tool("list_nodes", <<>>, <<>>),
       Tool("get_node_info", <<"nodeName">>, <<>>),
       Tool("search_nodes", <<"query">>, <<>>),
       Tool("get_node_documentation", <<"nodeName">>, <<>>) >>

HttpTools ==
    << Tool("list_nodes", <<>>, <<>>),
       Tool("get_node_info", <<"nodeName">>, <<>>),
       Tool("search_nodes", <<"query">>, <<>>) >>

-----------------------------------------------------------------------------
(* JSON-RPC messages *)

NoError  == [present |-> FALSE, code |-> 0, message |-> <<>>]
Error(c, m) == [present |-> TRUE, code |-> c, message |-> m]

NoSummary == [status |-> Undefined, errors |-> 0, warnings |-> 0, nodes |-> 0,
              connections |-> 0]

NoResult == [present |-> FALSE, kind |-> "none", tools |-> <<>>, text |-> <<>>,
             items |-> <<>>, total |-> 0,
             summary |-> NoSummary, errors |-> <<>>, warnings |-> <<>>]

\* result: { content: [ { type: 'text', text } ] }
Content(k, t) == [NoResult EXCEPT !.present = TRUE, !.kind = k, !.text = t]

\* A response object.  JSON.stringify drops absent keys: `error` and `result`
\* carry a present flag.
ErrorMessage(c, m, id) ==
    [jsonrpc |-> "2.0", error |-> Error(c, m), result |-> NoResult, id |-> id]
ResultMessage(r, id) ==
    [jsonrpc |-> "2.0", error |-> NoError, result |-> r, id |-> id]

\* What running a piece of handler code does on the stdio side: the messages
\* it passed to sendMessage, and whether it ended by throwing.
\* `calls` names the methods of MCPServer entered on the way.
Sent(m)  == [threw |-> FALSE, out |-> <<m>>, calls |-> {}]
Silent   == [threw |-> FALSE, out |-> <<>>, calls |-> {}]
Thrown   == [threw |-> TRUE,  out |-> <<>>, calls |-> {}]

\* the outcome r of a call of method `name`
Call(name, r) == [r EXCEPT !.calls = @ \cup {name}]

sendMessage_Prepends(stdout, messages) == messages \o stdout

\* sendMessage: console.log(JSON.stringify(message)) appends one line to
\* standard output, synchronously, for each message in turn
sendMessage(stdout, messages) == stdout \o messages

-----------------------------------------------------------------------------
(* Strings the code searches in: sequences of one-character strings *)

\* an absent / undefined string-valued field
UndefinedChars == <<Undefined>>

NodeList ==
    << <<"H","T","T","P"," ","R","e","q","u","e","s","t">>,
       <<"F","u","n","c","t","i","o","n">>,
       <<"I","f">>,
       <<"S","p","l","i","t"," ","I","n"," ","B","a","t","c","h","e","s">>,
       <<"W","e","b","h","o","o","k">>,
       <<"A","i","r","t","a","b","l","e">>,
       <<"D","i","s","c","o","r","d">>,
       <<"S","l","a","c","k">>,
       <<"E","m","a","i","l">>,
       <<"C","r","o","n">>,
       <<"M","a","n","u","a","l"," ","T","r","i","g","g","e","r">>,
       <<"C","o","d","e">>,
       <<"S","e","t">>,
       <<"M","e","r","g","e">>,
       <<"F","i","l","t","e","r">>,
       <<"S","w","i","t","c","h">>,
       <<"W","a","i","t">>,
       <<"E","r","r","o","r"," ","T","r","i","g","g","e","r">>,
       <<"G","o","o","g","l","e"," ","S","h","e","e","t","s">>,
       <<"N","o","t","i","o","n">>,
       <<"Z","a","p","i","e","r">>,
       <<"P","i","p","e","d","r","i","v","e">>,
       <<"H","u","b","S","p","o","t">>,
       <<"S","h","o","p","i","f","y">>,
       <<"S","t","r","i","p","e">>,
       <<"G","i","t","H","u","b">>,
       <<"G","i","t","L","a","b">>,
       <<"J","i","r","a">>,
       <<"T","r","e","l","l","o">>,
       <<"A","s","a","n","a">>,
       <<"M","o","n","d","a","y",".","c","o","m">>,
       <<"C","l","i","c","k","U","p">>,
       <<"L","i","n","e","a","r">>,
       <<"F","i","g","m","a">>,
       <<"C","a","n","v","a">> >>

UpperToLower ==
    ("A" :> "a") @@ ("B" :> "b") @@ ("C" :> "c") @@ ("D" :> "d") @@ ("E" :> "e") @@
    ("F" :> "f") @@ ("G" :> "g") @@ ("H" :> "h") @@ ("I" :> "i") @@ ("J" :> "j") @@
    ("K" :> "k") @@ ("L" :> "l") @@ ("M" :> "m") @@ ("N" :> "n") @@ ("O" :> "o") @@
    ("P" :> "p") @@ ("Q" :> "q") @@ ("R" :> "r") @@ ("S" :> "s") @@ ("T" :> "t") @@
    ("U" :> "u") @@ ("V" :> "v") @@ ("W" :> "w") @@ ("X" :> "x") @@ ("Y" :> "y") @@
    ("Z" :> "z")

\* String.prototype.toLowerCase
ToLowerCase(s) ==
    [i \in 1..Len(s) |-> IF s[i] \in DOMAIN UpperToLower THEN UpperToLower[s[i]]
                         ELSE s[i]]

\* String.prototype.includes
Includes(s, t) ==
    \E i \in 1..(Len(s) + 1) :
        /\ i + Len(t) - 1 <= Len(s)
        /\ SubSeq(s, i, i + Len(t) - 1) = t

\* the filter without the two toLowerCase calls
RECURSIVE Filter_CaseSensitive(_, _)
Filter_CaseSensitive(arr, needle) ==
    IF Len(arr) = 0 THEN <<>>
    ELSE (IF Includes(arr[1], needle) THEN <<arr[1]>> ELSE <<>>)
         \o Filter_CaseSensitive(Tail(arr), needle)

\* Array.prototype.filter, keeping the order of the array
RECURSIVE Filter(_, _)
Filter(arr, needle) ==
    IF Len(arr) = 0 THEN <<>>
    ELSE (IF Includes(ToLowerCase(arr[1]), ToLowerCase(needle)) THEN <<arr[1]>>
          ELSE <<>>) \o Filter(Tail(arr), needle)

\* truthiness of a string-valued field: undefined and '' are falsy
FalsyChars(s) == s = UndefinedChars \/ Len(s) = 0

-----------------------------------------------------------------------------
(* Request objects *)

NoNodes       == [kind |-> "undefined", items |-> <<>>]
NoConnections == [kind |-> "undefined", vals |-> <<>>]
NoWorkflow    == [kind |-> "undefined", name |-> Undefined, nodes |-> NoNodes,
                  connections |-> NoConnections]

\* tools/call params.arguments; kind is "undefined" when the key is absent
NoArgs == [kind |-> "undefined", category |-> UndefinedChars, nodeName |-> Undefined,
           query |-> UndefinedChars, workflowType |-> Undefined,
           customName |-> Undefined, templateName |-> Undefined,
           workflow |-> NoWorkflow]
EmptyArgs == [NoArgs EXCEPT !.kind = "object"]

\* params; kind is "undefined" when the key is absent, "null" for JSON null
NoParams == [kind |-> "undefined", name |-> Undefined, arguments |-> NoArgs]
Params(n, a) == [kind |-> "object", name |-> n, arguments |-> a]

Request(j, m, p, i) == [jsonrpc |-> j, method |-> m, params |-> p, id |-> i]

\* args?.field
ArgOf(args, f) == IF args.kind = "object" THEN args[f] ELSE NoArgs[f]

-----------------------------------------------------------------------------
(* Property lookup in an object literal: table[key] *)

\* Names every object literal inherits from Object.prototype
ObjectPrototypeKeys ==
    {"constructor", "toString", "valueOf", "hasOwnProperty", "isPrototypeOf",
     "propertyIsEnumerable", "toLocaleString", "__proto__"}

\* "own": the literal's entry; "inherited": a member of Object.prototype, a truthy
\* value that has none of the entry's fields; "undefined": no such property
Lookup(ownKeys, key) ==
    IF key \in ownKeys THEN "own"
    ELSE IF key \in ObjectPrototypeKeys THEN "inherited"
    ELSE "undefined"

-----------------------------------------------------------------------------
(* stdio server: protocol handlers, src/unnamed/part_000 *)

handleInitialize(id) ==
    Sent(ResultMessage([NoResult EXCEPT !.present = TRUE, !.kind = "initialize",
                           !.text = <<"2024-11-05", "n8n-mcp-server", "2.7.20">>], id))

handleToolsList_DropsFirst(ts, id) ==
    Sent(ResultMessage([NoResult EXCEPT !.present = TRUE, !.kind = "tools",
                           !.tools = Tail(ts)], id))

handleToolsList(ts, id) ==
    Sent(ResultMessage([NoResult EXCEPT !.present = TRUE, !.kind = "tools",
                           !.tools = ts], id))

handleResourcesList(id) ==
    Sent(ResultMessage([NoResult EXCEPT !.present = TRUE, !.kind = "resources"], id))

handlePromptsList(id) ==
    Sent(ResultMessage([NoResult EXCEPT !.present = TRUE, !.kind = "prompts"], id))

-----------------------------------------------------------------------------
(* stdio server: tool handlers *)

handleListNodes(args, id) ==
    LET category == ArgOf(args, "category")
        nodes == IF FalsyChars(category) THEN NodeList ELSE Filter(NodeList, category)
    IN  Sent(ResultMessage(
            [Content("list_nodes",
                     <<"Available n8n nodes">>
                     \o (IF FalsyChars(category) THEN <<>>
                         ELSE <<" in category '">> \o category \o <<"'">>)
                     \o <<": <nodes> Total: ", ToString(Len(nodes)), " nodes">>)
             EXCEPT !.items = nodes, !.total = Len(nodes)], id))

NodeInfoKeys == {"HTTP Request", "Function", "If"}

NodeInfoEntry(k) ==
    CASE k = "HTTP Request" ->
            [description |-> "Make HTTP requests to external APIs and services",
             category |-> "Core",
             properties |-> <<"URL", "Method", "Headers", "Body", "Authentication">>,
             examples |-> <<"GET API data", "POST form data", "PUT update resource">>]
      [] k = "Function" ->
            [description |-> "Execute custom JavaScript code to transform data",
             category |-> "Core",
             properties |-> <<"Code", "Input Data", "Output Format">>,
             examples |-> <<"Data transformation", "Custom logic", "Data validation">>]
      [] k = "If" ->
            [description |-> "Conditionally route workflow execution based on conditions",
             category |-> "Flow Control",
             properties |-> <<"Conditions", "True Path", "False Path">>,
             examples |-> <<"Data filtering", "Error handling", "Branching logic">>]

NodeInfoFallback ==
    [description |-> "A powerful n8n node for workflow automation",
     category |-> "General",
     properties |-> <<"Various configuration options">>,
     examples |-> <<"Workflow automation", "Data processing", "Integration">>]

NodeInfoText(nodeName, info) ==
    <<"**", nodeName, " Node** Description: ", info.description,
      " Category: ", info.category, " Key Properties: ">> \o Join(info.properties)
    \o <<" Common Use Cases: ">> \o Join(info.examples)

handleGetNodeInfo(args, id) ==
    LET nodeName == OrElse(ArgOf(args, "nodeName"), "HTTP Request")
        found    == Lookup(NodeInfoKeys, nodeName)
    IN  CASE found = "own" ->
                Sent(ResultMessage(Content("node_info",
                        NodeInfoText(nodeName, NodeInfoEntry(nodeName))), id))
          [] found = "undefined" ->
                Sent(ResultMessage(Content("node_info",
                        NodeInfoText(nodeName, NodeInfoFallback)), id))
          \* info is a member of Object.prototype: info.properties is undefined
          \* and info.properties.join throws a TypeError
          [] found = "inherited" -> Thrown

handleSearchNodes(args, id) ==
    LET q == ArgOf(args, "query")
        query == IF FalsyChars(q) THEN <<>> ELSE q
        matchingNodes == Filter(NodeList, query)
    IN  Sent(ResultMessage(
            [Content("search_nodes",
                     <<"Search results for '">> \o query \o <<"': ">>
                     \o (IF Len(matchingNodes) > 0 THEN <<"<nodes>">>
                         ELSE <<"No nodes found">>)
                     \o <<" Found ", ToString(Len(matchingNodes)), " matching nodes.">>)
             EXCEPT !.items = matchingNodes, !.total = Len(matchingNodes)], id))

DocumentationKeys == {"HTTP Request"}

DocumentationText(title, description, parameters, examples) ==
    <<"# ">> \o title \o <<" ", description, " ## Parameters ">> \o Join(parameters)
    \o <<" ## Examples ">> \o Join(examples)

handleGetNodeDocumentation(args, id) ==
    LET nodeName == OrElse(ArgOf(args, "nodeName"), "HTTP Request")
        found    == Lookup(DocumentationKeys, nodeName)
    IN  CASE found = "own" ->
                Sent(ResultMessage(Content("node_documentation",
                    DocumentationText(<<"HTTP Request Node Documentation">>,
                        "The HTTP Request node allows you to make HTTP requests to external APIs and services.",
                        <<"URL", "Method", "Headers", "Body", "Authentication">>,
                        <<"GET", "POST", "PUT", "DELETE">>)), id))
          [] found = "undefined" ->
                Sent(ResultMessage(Content("node_documentation",
                    DocumentationText(<<nodeName, " Node Documentation">>,
                        "Comprehensive documentation for this n8n node.",
                        <<"Various configuration parameters available">>,
                        <<"Multiple use cases and examples available">>)), id))
          \* doc is a member of Object.prototype: doc.parameters is undefined and
          \* doc.parameters.map throws a TypeError
          [] found = "inherited" -> Thrown

NodeCategories ==
    <<"Core", "Flow Control", "Communication", "Data", "Files", "CRM", "Marketing",
      "E-commerce", "Development", "Productivity", "Social Media", "Analytics",
      "Finance", "Design", "Project Management">>

handleListNodeCategories(id) ==
    Sent(ResultMessage(
        [Content("list_node_categories",
                 <<"Available n8n node categories: ">> \o Join(NodeCategories)
                 \o <<" Total: ", ToString(Len(NodeCategories)), " categories">>)
         EXCEPT !.total = Len(NodeCategories)], id))

WorkflowTypeKeys ==
    {"webhook_to_slack", "manual_to_http", "schedule_to_email", "ai_agent",
     "data_processing"}

\* workflow.nodes.length and Object.keys(workflow.connections).length of each entry
WorkflowEntry(k) ==
    CASE k = "webhook_to_slack"  -> [nodes |-> 3, connections |-> 2]
      [] k = "manual_to_http"    -> [nodes |-> 3, connections |-> 2]
      [] k = "schedule_to_email" -> [nodes |-> 2, connections |-> 1]
      [] k = "ai_agent"          -> [nodes |-> 3, connections |-> 2]
      [] k = "data_processing"   -> [nodes |-> 4, connections |-> 3]

handleCreateTestWorkflow(args, id) ==
    LET workflowType == OrElse(ArgOf(args, "workflowType"), "webhook_to_slack")
        custom       == ArgOf(args, "customName")
        customName   == IF Falsy(custom) THEN <<"Test Workflow - ", workflowType>>
                        ELSE <<custom>>
        found        == Lookup(WorkflowTypeKeys, workflowType)
    IN  CASE found = "undefined" ->
                Sent(ErrorMessage(-32602, <<"Unknown workflow type: ", workflowType>>, id))
          [] found = "own" ->
                Sent(ResultMessage(
                    [Content("create_test_workflow",
                             <<"Created test workflow: '">> \o customName
                             \o <<"' Workflow Type: ", workflowType,
                                  " Nodes: ", ToString(WorkflowEntry(workflowType).nodes),
                                  " Connections: ",
                                  ToString(WorkflowEntry(workflowType).connections)>>)
                     EXCEPT !.total = WorkflowEntry(workflowType).nodes], id))
          \* workflow is a member of Object.prototype: workflow.nodes is undefined
          \* and workflow.nodes.length throws a TypeError
          [] found = "inherited" -> Thrown

\* a missing typeVersion pushed to errors instead of warnings
NodeErrors_TypeVersionIsError(node, index) ==
    (IF Falsy(node.id) THEN <<<<"Node ", ToString(index), ": Missing ID">>>> ELSE <<>>)
    \o (IF Falsy(node.name) THEN <<<<"Node ", ToString(index), ": Missing name">>>>
        ELSE <<>>)
    \o (IF Falsy(node.type) THEN <<<<"Node ", ToString(index), ": Missing type">>>>
        ELSE <<>>)
    \o (IF \/ node.position.kind \in {"undefined", "null"}
           \/ node.position.kind # "array"
           \/ node.position.length # 2
        THEN <<<<"Node ", ToString(index), ": Invalid position (should be [x, y])">>>>
        ELSE <<>>)
    \o (IF Falsy(node.typeVersion)
        THEN <<<<"Node ", ToString(index), ": Missing typeVersion (recommended)">>>>
        ELSE <<>>)

\* The checks of one node of workflow.nodes.forEach; index is the array index.
NodeErrors(node, index) ==
    (IF Falsy(node.id) THEN <<<<"Node ", ToString(index), ": Missing ID">>>> ELSE <<>>)
    \o (IF Falsy(node.name) THEN <<<<"Node ", ToString(index), ": Missing name">>>>
        ELSE <<>>)
    \o (IF Falsy(node.type) THEN <<<<"Node ", ToString(index), ": Missing type">>>>
        ELSE <<>>)
    \o (IF \/ node.position.kind \in {"undefined", "null"}
           \/ node.position.kind # "array"
           \/ node.position.length # 2
        THEN <<<<"Node ", ToString(index), ": Invalid position (should be [x, y])">>>>
        ELSE <<>>)

NodeWarnings(node, index) ==
    IF Falsy(node.typeVersion)
    THEN <<<<"Node ", ToString(index), ": Missing typeVersion (recommended)">>>>
    ELSE <<>>

RECURSIVE AllNodeErrors(_, _)
AllNodeErrors(items, index) ==
    IF Len(items) = 0 THEN <<>>
    ELSE NodeErrors(items[1], index) \o AllNodeErrors(Tail(items), index + 1)

RECURSIVE AllNodeWarnings(_, _)
AllNodeWarnings(items, index) ==
    IF Len(items) = 0 THEN <<>>
    ELSE NodeWarnings(items[1], index) \o AllNodeWarnings(Tail(items), index + 1)

\* Object.keys(workflow.connections).forEach: typeof null is 'object'
RECURSIVE ConnectionErrors(_)
ConnectionErrors(vals) ==
    IF Len(vals) = 0 THEN <<>>
    ELSE (IF vals[1].kind \in {"object", "null", "array"} THEN <<>>
          ELSE <<<<"Invalid connections for node: ", vals[1].key>>>>)
         \o ConnectionErrors(Tail(vals))

FalsyKind_UndefinedOnly(k) == k = "undefined"

\* !workflow, !workflow.nodes, !workflow.connections
FalsyKind(k) == k \in {"undefined", "null"}

StructureErrors_NodesUnchecked(workflow) ==
    (IF Falsy(workflow.name) THEN <<<<"Missing workflow name">>>> ELSE <<>>)
    \o (IF \/ FalsyKind(workflow.connections.kind)
           \/ workflow.connections.kind \notin {"object", "array"}
        THEN <<<<"Missing or invalid connections object">>>> ELSE <<>>)

\* "Basic structure validation": the name, nodes and connections checks
StructureErrors(workflow) ==
    (IF Falsy(workflow.name) THEN <<<<"Missing workflow name">>>> ELSE <<>>)
    \o (IF FalsyKind(workflow.nodes.kind) \/ workflow.nodes.kind # "array"
        THEN <<<<"Missing or invalid nodes array">>>> ELSE <<>>)
    \o (IF \/ FalsyKind(workflow.connections.kind)
           \/ workflow.connections.kind \notin {"object", "array"}
        THEN <<<<"Missing or invalid connections object">>>> ELSE <<>>)

handleValidateWorkflow(args, id) ==
    LET workflow == ArgOf(args, "workflow")
    IN  IF FalsyKind(workflow.kind)
        THEN Sent(ErrorMessage(-32602, <<"Workflow object is required">>, id))
        \* workflow.nodes is truthy but has no forEach method (a string, a number,
        \* a plain object): workflow.nodes.forEach(...) throws a TypeError
        ELSE IF workflow.nodes.kind \in {"string", "number", "object"} THEN Thrown
        \* an element of workflow.nodes is null: node.id throws a TypeError
        ELSE IF \E i \in 1..Len(workflow.nodes.items) :
                    workflow.nodes.items[i].kind = "null" THEN Thrown
        ELSE
        LET errors ==
                StructureErrors(workflow)
                \o (IF FalsyKind(workflow.nodes.kind) THEN <<>>
                    ELSE AllNodeErrors(workflow.nodes.items, 0))
                \o (IF FalsyKind(workflow.connections.kind) THEN <<>>
                    ELSE ConnectionErrors(workflow.connections.vals))
            warnings ==
                IF FalsyKind(workflow.nodes.kind) THEN <<>>
                ELSE AllNodeWarnings(workflow.nodes.items, 0)
            status == IF Len(errors) = 0 THEN "VALID" ELSE "INVALID"
            summary ==
                [status |-> status, errors |-> Len(errors), warnings |-> Len(warnings),
                 nodes |-> IF FalsyKind(workflow.nodes.kind) THEN 0
                           ELSE Len(workflow.nodes.items),
                 connections |-> IF FalsyKind(workflow.connections.kind) THEN 0
                                 ELSE Len(workflow.connections.vals)]
        IN  Sent(ResultMessage(
                [Content("validate_workflow",
                         <<"## Workflow Validation Results Status: ", status,
                           " Recommendations: ",
                           IF Len(errors) = 0 THEN "Workflow structure is valid"
                           ELSE "Fix errors before testing">>)
                 EXCEPT !.summary = summary, !.errors = errors,
                        !.warnings = warnings], id))

TemplateKeys == {"webhook_slack", "email_processor"}

TemplateEntry(k) ==
    CASE k = "webhook_slack" ->
            [name |-> "Webhook to Slack Notification",
             description |-> "Simple webhook that sends notifications to Slack",
             category |-> "Communication", difficulty |-> "Beginner", nodes |-> "3"]
      [] k = "email_processor" ->
            [name |-> "Email Processing Workflow",
             description |-> "Process incoming emails and extract data",
             category |-> "Data Processing", difficulty |-> "Intermediate",
             nodes |-> "4"]

\* What the fields read as on a member of Object.prototype: nothing throws, the
\* absent fields are concatenated as 'undefined'
InheritedTemplate ==
    [name |-> "<inherited name>", description |-> Undefined, category |-> Undefined,
     difficulty |-> Undefined, nodes |-> Undefined]

TemplateText(t) ==
    <<"## Workflow Template: ", t.name, " Description: ", t.description,
      " Category: ", t.category, " Difficulty: ", t.difficulty, " Nodes: ", t.nodes>>

handleGetWorkflowTemplate(args, id) ==
    LET templateName == OrElse(ArgOf(args, "templateName"), "webhook_slack")
        found        == Lookup(TemplateKeys, templateName)
    IN  CASE found = "undefined" ->
                Sent(ErrorMessage(-32602, <<"Unknown template: ", templateName>>, id))
          [] found = "own" ->
                Sent(ResultMessage(Content("get_workflow_template",
                        TemplateText(TemplateEntry(templateName))), id))
          [] found = "inherited" ->
                Sent(ResultMessage(Content("get_workflow_template",
                        TemplateText(InheritedTemplate)), id))

-----------------------------------------------------------------------------
(* stdio server: dispatch *)

\* default: of the switch on the tool name
ToolNotFound_WrongCode(id) == Sent(ErrorMessage(-32602, <<"Tool not found">>, id))

ToolNotFound(id) == Sent(ErrorMessage(-32601, <<"Tool not found">>, id))

handleToolsCall(params, id) ==
    \* const { name, arguments: args } = params throws when params is
    \* undefined or null
    IF params.kind \in {"undefined", "null"} THEN Thrown
    ELSE LET name == params.name
             args == params.arguments
         IN  CASE name = "list_nodes"             -> Call("handleListNodes", handleListNodes(args, id))
               [] name = "get_node_info"          -> Call("handleGetNodeInfo", handleGetNodeInfo(args, id))
               [] name = "search_nodes"           -> Call("handleSearchNodes", handleSearchNodes(args, id))
               [] name = "get_node_documentation" -> Call("handleGetNodeDocumentation", handleGetNodeDocumentation(args, id))
               [] name = "list_node_categories"   -> Call("handleListNodeCategories", handleListNodeCategories(id))
               [] name = "create_test_workflow"   -> Call("handleCreateTestWorkflow", handleCreateTestWorkflow(args, id))
               [] name = "validate_workflow"      -> Call("handleValidateWorkflow", handleValidateWorkflow(args, id))
               [] name = "get_workflow_template"  -> Call("handleGetWorkflowTemplate", handleGetWorkflowTemplate(args, id))
               [] OTHER -> ToolNotFound(id)

InvalidEnvelope_PresenceOnly(request) == Falsy(request.jsonrpc)

\* !jsonrpc || jsonrpc !== '2.0'
InvalidEnvelope(request) == Falsy(request.jsonrpc) \/ request.jsonrpc # "2.0"

IsNotification_KnownOnly(request) ==
    request.id = Undefined /\ request.method = "notifications/initialized"

\* id === undefined; both arms of the switch on the method return without sending
IsNotification(request) == request.id = Undefined

MethodNotFound_NullId(id) == Sent(ErrorMessage(-32601, <<"Method not found">>, Null))

\* default: of the switch on the method
MethodNotFound(id) == Sent(ErrorMessage(-32601, <<"Method not found">>, id))

handleRequest(ts, request) ==
    IF InvalidEnvelope(request)
    THEN Sent(ErrorMessage(-32600, <<"Invalid Request">>, Null))
    ELSE IF IsNotification(request) THEN Silent
    ELSE LET id == request.id
             method == request.method
         IN  CASE method = "initialize"     -> Call("handleInitialize", handleInitialize(id))
               [] method = "tools/list"     -> Call("handleToolsList", handleToolsList(ts, id))
               [] method = "tools/call"     -> Call("handleToolsCall", handleToolsCall(request.params, id))
               [] method = "resources/list" -> Call("handleResourcesList", handleResourcesList(id))
               [] method = "prompts/list"   -> Call("handlePromptsList", handlePromptsList(id))
               [] OTHER -> MethodNotFound(id)

\* a line that is not JSON answered with a parse error instead of being skipped
OnLine_ParseErrorAnswered(ts, l) ==
    IF l.json = "malformed"
    THEN [out |-> <<ErrorMessage(-32700, <<"Parse error">>, Null)>>, logged |-> 1,
          calls |-> {}]
    ELSE IF l.json = "null"
    THEN [out |-> <<>>, logged |-> 1, calls |-> {"handleRequest"}]
    ELSE LET r == Call("handleRequest", handleRequest(ts, l.request))
         IN  [out |-> r.out, logged |-> IF r.threw THEN 1 ELSE 0, calls |-> r.calls]

\* rl.on('line', ...): JSON.parse, handleRequest, and the catch around both.
\* A line is [json, request]: json = "malformed" when JSON.parse throws, "null"
\* when it yields null (destructuring null throws), "object" otherwise.
OnLine(ts, l) ==
    IF l.json = "malformed" THEN [out |-> <<>>, logged |-> 1, calls |-> {}]
    ELSE IF l.json = "null"
    THEN [out |-> <<>>, logged |-> 1, calls |-> {"handleRequest"}]
    ELSE LET r == Call("handleRequest", handleRequest(ts, l.request))
         IN  [out |-> r.out, logged |-> IF r.threw THEN 1 ELSE 0, calls |-> r.calls]

-----------------------------------------------------------------------------
(* HTTP handler, src/unnamed/part_001 *)

\* Module load: N8N_MCP_AUTH_TOKEN, when set and non-empty, overrides AUTH_TOKEN
ModuleLoad(e) ==
    IF FalsyChars(e.N8N_MCP_AUTH_TOKEN) THEN e
    ELSE [e EXCEPT !.AUTH_TOKEN = e.N8N_MCP_AUTH_TOKEN]

Bearer == <<"B", "e", "a", "r", "e", "r", " ">>

\* String.prototype.startsWith
StartsWith(s, prefix) ==
    Len(s) >= Len(prefix) /\ SubSeq(s, 1, Len(prefix)) = prefix

\* String.prototype.slice(n)
Slice(s, n) == SubSeq(s, n + 1, Len(s))

WhiteSpace == {" ", "\t"}

\* String.prototype.trim
RECURSIVE TrimStart(_)
TrimStart(s) ==
    IF Len(s) > 0 /\ s[1] \in WhiteSpace THEN TrimStart(Tail(s)) ELSE s

RECURSIVE TrimEnd(_)
TrimEnd(s) ==
    IF Len(s) > 0 /\ s[Len(s)] \in WhiteSpace THEN TrimEnd(SubSeq(s, 1, Len(s) - 1))
    ELSE s

Trim(s) == TrimEnd(TrimStart(s))

validateAuth_MissingHeaderPasses(req, e) ==
    LET authHeader == req.headers.authorization
    IN  IF FalsyChars(authHeader) THEN TRUE
        ELSE IF ~StartsWith(authHeader, Bearer) THEN FALSE
        ELSE Trim(Slice(authHeader, 7)) = e.AUTH_TOKEN

validateAuth_AnyScheme(req, e) ==
    LET authHeader == req.headers.authorization
    IN  IF FalsyChars(authHeader) THEN FALSE
        ELSE Trim(Slice(authHeader, 7)) = e.AUTH_TOKEN

\* the secret read as text: an unset AUTH_TOKEN compares as 'undefined'
validateAuth_StringifiesSecret(req, e) ==
    LET authHeader == req.headers.authorization
        secret == IF e.AUTH_TOKEN = UndefinedChars
                  THEN <<"u", "n", "d", "e", "f", "i", "n", "e", "d">>
                  ELSE e.AUTH_TOKEN
    IN  IF FalsyChars(authHeader) THEN FALSE
        ELSE IF ~StartsWith(authHeader, Bearer) THEN FALSE
        ELSE Trim(Slice(authHeader, 7)) = secret

validateAuth(req, e) ==
    LET authHeader == req.headers.authorization
    IN  IF FalsyChars(authHeader) THEN FALSE
        ELSE IF ~StartsWith(authHeader, Bearer) THEN FALSE
        ELSE Trim(Slice(authHeader, 7)) = e.AUTH_TOKEN

\* Response bodies.  kind: "none" nothing sent yet, "end" res.end() with no
\* body, "jsonrpc" a JSON-RPC message, "health" / "info" / "error" the other
\* JSON documents; status is the document's `status` field.
NoMessage == [jsonrpc |-> Undefined, error |-> NoError, result |-> NoResult,
              id |-> Undefined]
Body(k, m, st) == [kind |-> k, rpc |-> m, status |-> st]

\* The response object as the platform hands it over
NewResponse == [statusCode |-> 200, headers |-> {}, headersSent |-> FALSE,
                body |-> Body("none", NoMessage, Undefined)]

\* res.status(code).json(body)
Json(res, code, body) ==
    [res EXCEPT !.statusCode = code, !.headersSent = TRUE, !.body = body]

\* res.status(code).end()
End(res, code) ==
    [res EXCEPT !.statusCode = code, !.headersSent = TRUE,
                !.body = Body("end", NoMessage, Undefined)]

\* What running handler code does on the HTTP side: the response object, and
\* whether the code ended by throwing.
Returned(res) == [threw |-> FALSE, res |-> res, calls |-> {}]
Threw(res)    == [threw |-> TRUE,  res |-> res, calls |-> {}]

httpHandleInitialize(res, id) ==
    Returned(Json(res, 200, Body("jsonrpc",
        ResultMessage([NoResult EXCEPT !.present = TRUE, !.kind = "initialize",
                          !.text = <<"2024-11-05", "n8n-mcp-server", "2.7.20">>], id),
        Undefined)))

httpHandleToolsList(ts, res, id) ==
    Returned(Json(res, 200, Body("jsonrpc",
        ResultMessage([NoResult EXCEPT !.present = TRUE, !.kind = "tools",
                          !.tools = ts], id),
        Undefined)))

httpHandleToolsCall(req, res, id) ==
    \* const { name, arguments: args } = req.body.params throws when params is
    \* undefined or null
    IF req.body.request.params.kind \in {"undefined", "null"} THEN Threw(res)
    ELSE LET name == req.body.request.params.name
             args == req.body.request.params.arguments
         IN  CASE name = "list_nodes" ->
                    Returned(Json(res, 200, Body("jsonrpc",
                        ResultMessage(Content("list_nodes",
                            <<"Available n8n nodes: HTTP Request, Function, If, Split In Batches, Webhook, Airtable, Discord, Slack, and many more...">>),
                            id), Undefined)))
               [] name = "get_node_info" ->
                    Returned(Json(res, 200, Body("jsonrpc",
                        ResultMessage(Content("node_info",
                            <<"Information about ",
                              OrElse(ArgOf(args, "nodeName"), "HTTP Request"),
                              ": This node allows you to make HTTP requests to external APIs and services.">>),
                            id), Undefined)))
               [] name = "search_nodes" ->
                    Returned(Json(res, 200, Body("jsonrpc",
                        ResultMessage(Content("search_nodes",
                            <<"Search results for '">>
                            \o (IF FalsyChars(ArgOf(args, "query")) THEN <<>>
                                ELSE ArgOf(args, "query"))
                            \o <<"': Found multiple nodes matching your query.">>),
                            id), Undefined)))
               [] OTHER ->
                    Returned(Json(res, 400, Body("jsonrpc",
                        ErrorMessage(-32601, <<"Tool not found">>, id), Undefined)))

handleMCPRequest(ts, req, res) ==
    \* const { jsonrpc, method, params, id } = req.body throws when the body is
    \* undefined or null
    IF req.body.kind \in {"undefined", "null"} THEN Threw(res)
    ELSE IF InvalidEnvelope(req.body.request)
    THEN Returned(Json(res, 400, Body("jsonrpc",
            ErrorMessage(-32600, <<"Invalid Request">>, Null), Undefined)))
    ELSE IF IsNotification(req.body.request) THEN Returned(End(res, 200))
    ELSE LET id == req.body.request.id
             method == req.body.request.method
         IN  CASE method = "initialize" -> Call("handleInitialize", httpHandleInitialize(res, id))
               [] method = "tools/list" -> Call("handleToolsList", httpHandleToolsList(ts, res, id))
               [] method = "tools/call" -> Call("handleToolsCall", httpHandleToolsCall(req, res, id))
               [] method = "resources/list" ->
                    Returned(Json(res, 200, Body("jsonrpc",
                        ResultMessage([NoResult EXCEPT !.present = TRUE,
                                          !.kind = "resources"], id), Undefined)))
               [] method = "prompts/list" ->
                    Returned(Json(res, 200, Body("jsonrpc",
                        ResultMessage([NoResult EXCEPT !.present = TRUE,
                                          !.kind = "prompts"], id), Undefined)))
               [] OTHER ->
                    Returned(Json(res, 400, Body("jsonrpc",
                        ErrorMessage(-32601, <<"Method not found">>, id), Undefined)))

CorsHeaders_OriginOnly == {"Access-Control-Allow-Origin"}

\* res.setHeader(...), the first statements of the try block
CorsHeaders ==
    {"Access-Control-Allow-Origin", "Access-Control-Allow-Methods",
     "Access-Control-Allow-Headers"}

\* req.body?.id || null
UnauthorizedId(req) ==
    IF req.body.kind \in {"undefined", "null"} THEN Null
    ELSE OrElse(req.body.request.id, Null)

IsHealthCheck_WrongPath(req) == req.method = "GET" /\ req.url = "/healthz"

\* req.method === 'GET' && req.url === '/health'
IsHealthCheck(req) == req.method = "GET" /\ req.url = "/health"

\* the envelope inspected before the authentication check
HttpTry_EnvelopeFirst(ts, e, req, res0) ==
    LET res == [res0 EXCEPT !.headers = @ \cup CorsHeaders]
    IN  IF req.method = "OPTIONS" THEN Returned(End(res, 200))
        ELSE IF IsHealthCheck(req)
        THEN Returned(Json(res, 200, Body("health", NoMessage, "ok")))
        ELSE IF req.method = "POST"
        THEN IF req.body.kind = "object" /\ InvalidEnvelope(req.body.request)
             THEN Returned(Json(res, 400, Body("jsonrpc",
                    ErrorMessage(-32600, <<"Invalid Request">>, Null), Undefined)))
             ELSE IF ~validateAuth(req, e)
             THEN Returned(Json(res, 401, Body("jsonrpc",
                    ErrorMessage(-32001,
                                 <<"Unauthorized - Valid Bearer token required">>,
                                 UnauthorizedId(req)), Undefined)))
             ELSE Call("handleMCPRequest", handleMCPRequest(ts, req, res))
        ELSE Returned(Json(res, 200, Body("info", NoMessage, "running")))

\* The body of the try block of the exported handler
HttpTry(ts, e, req, res0) ==
    LET res == [res0 EXCEPT !.headers = @ \cup CorsHeaders]
    IN  IF req.method = "OPTIONS" THEN Returned(End(res, 200))
        ELSE IF IsHealthCheck(req)
        THEN Returned(Json(res, 200, Body("health", NoMessage, "ok")))
        ELSE IF req.method = "POST"
        THEN IF ~validateAuth(req, e)
             THEN Returned(Json(res, 401, Body("jsonrpc",
                    ErrorMessage(-32001,
                                 <<"Unauthorized - Valid Bearer token required">>,
                                 UnauthorizedId(req)), Undefined)))
             ELSE Call("handleMCPRequest", handleMCPRequest(ts, req, res))
        ELSE Returned(Json(res, 200, Body("info", NoMessage, "running")))

\* module.exports = async (req, res) => { try {...} catch {...} }
HttpHandler(ts, e, req, res0) ==
    LET r == HttpTry(ts, e, req, res0)
    IN  [res |-> IF ~r.threw THEN r.res
                 ELSE IF ~r.res.headersSent
                 THEN Json(r.res, 500, Body("error", NoMessage, Undefined))
                 ELSE r.res,
         calls |-> r.calls]

-----------------------------------------------------------------------------
(* Serverless stub, src/api/index.js *)

ApiHandler(req, res) ==
    [res |-> IF req.method = "GET" /\ req.url = "/health"
             THEN Json(res, 200, Body("health", NoMessage, "ok"))
             ELSE Json(res, 200, Body("info", NoMessage, Undefined)),
     calls |-> {}]

-----------------------------------------------------------------------------
(* Bounds and input domains *)

MaxNodes    == 2     \* longest workflow.nodes array drawn
MaxLines    == 3     \* longest input stream whose transcript is kept
MaxTokenLen == 2     \* longest text drawn after an Authorization scheme

\* all sequences over S of length at most n
RECURSIVE SeqsUpTo(_, _)
SeqsUpTo(S, n) ==
    IF n = 0 THEN {<<>>}
    ELSE LET shorter == SeqsUpTo(S, n - 1)
         IN  shorter \cup {Append(q, x) : q \in {t \in shorter : Len(t) = n - 1}, x \in S}

JsonrpcValues == {Undefined, "2.0", "1.0"}
IdValues      == {Undefined, "1", Null}

OtherMethods ==
    {"initialize", "tools/list", "resources/list", "prompts/list",
     "notifications/initialized", "ping", Undefined}

ToolNames == {StdioTools[i].name : i \in 1..Len(StdioTools)}

NodeNameValues == {"HTTP Request", "Function", "If", "Slack", "", "constructor",
                   "__proto__"}

Position(k, n) == [kind |-> k, length |-> n]
Positions == {Position("undefined", 0), Position("number", 0), Position("array", 1),
              Position("array", 2)}

Node(i, n, t, p, v) ==
    [kind |-> "object", id |-> i, name |-> n, type |-> t, position |-> p,
     typeVersion |-> v]
NullNode == [kind |-> "null", id |-> Undefined, name |-> Undefined,
             type |-> Undefined, position |-> Position("undefined", 0),
             typeVersion |-> Undefined]

GoodNode == Node("webhook_1", "Webhook", "n8n-nodes-base.webhook",
                 Position("array", 2), "1")

\* the well-formed node, the nodes that fail one check each, and a null element
NodeValues ==
    {GoodNode, NullNode,
     [GoodNode EXCEPT !.id = Undefined], [GoodNode EXCEPT !.id = ""],
     [GoodNode EXCEPT !.name = Undefined], [GoodNode EXCEPT !.type = Undefined],
     [GoodNode EXCEPT !.typeVersion = Undefined]}
    \cup {[GoodNode EXCEPT !.position = p] : p \in Positions}

NodesValues(n) ==
    {NoNodes, [kind |-> "null", items |-> <<>>], [kind |-> "string", items |-> <<>>],
     [kind |-> "number", items |-> <<>>], [kind |-> "object", items |-> <<>>]}
    \cup {[kind |-> "array", items |-> q] : q \in SeqsUpTo(NodeValues, n)}

Conn(k, t) == [key |-> k, kind |-> t]
ConnectionsValues ==
    {NoConnections,
     [kind |-> "string", vals |-> <<Conn("0", "string"), Conn("1", "string")>>],
     [kind |-> "number", vals |-> <<>>],
     [kind |-> "object", vals |-> <<>>],
     [kind |-> "object", vals |-> <<Conn("Webhook", "object")>>],
     [kind |-> "object", vals |-> <<Conn("Webhook", "string")>>],
     [kind |-> "object", vals |-> <<Conn("Webhook", "object"), Conn("Slack", "null")>>]}

WorkflowObject(n, ns, c) ==
    [kind |-> "object", name |-> n, nodes |-> ns, connections |-> c]

\* workflow values: absent, null, a truthy non-object (all fields read as
\* undefined), and objects
Workflows(n) ==
    {NoWorkflow, [NoWorkflow EXCEPT !.kind = "null"], [NoWorkflow EXCEPT !.kind = "string"]}
    \cup {WorkflowObject(nm, ns, c) :
            nm \in {Undefined, "", "x"}, ns \in NodesValues(n), c \in ConnectionsValues}

WorkflowSamples ==
    {NoWorkflow, [NoWorkflow EXCEPT !.kind = "null"],
     WorkflowObject("x", [kind |-> "array", items |-> <<>>],
                    [kind |-> "object", vals |-> <<>>]),
     WorkflowObject("x", NoNodes, [kind |-> "object", vals |-> <<>>]),
     WorkflowObject("x", [kind |-> "string", items |-> <<>>],
                    [kind |-> "object", vals |-> <<>>]),
     WorkflowObject("x", [kind |-> "array", items |-> <<GoodNode>>],
                    [kind |-> "object", vals |-> <<Conn("Webhook", "object")>>]),
     WorkflowObject(Undefined,
                    [kind |-> "array",
                     items |-> <<[GoodNode EXCEPT !.typeVersion = Undefined,
                                                  !.id = Undefined]>>],
                    NoConnections)}

\* params of the tools/call requests drawn in the main specification
ToolCallParams ==
    {NoParams, [NoParams EXCEPT !.kind = "null"], Params(Undefined, NoArgs)}
    \cup {Params(n, a) : n \in ToolNames \cup {"unknown_tool", "constructor"},
                         a \in {NoArgs, EmptyArgs}}
    \cup {Params("list_nodes", [EmptyArgs EXCEPT !.category = c]) :
            c \in {<<"s", "l", "a", "c", "k">>, <<"S", "L", "A", "C", "K">>,
                   <<"i", "t">>, <<"z", "z">>, <<>>}}
    \cup {Params(t, [EmptyArgs EXCEPT !.nodeName = n]) :
            t \in {"get_node_info", "get_node_documentation"}, n \in NodeNameValues}
    \cup {Params("search_nodes", [EmptyArgs EXCEPT !.query = q]) :
            q \in {<<"G", "i", "t">>, <<"z", "z">>, <<>>}}
    \cup {Params("create_test_workflow",
                 [EmptyArgs EXCEPT !.workflowType = w, !.customName = c]) :
            w \in WorkflowTypeKeys \cup {"unknown_type", "", "constructor"},
            c \in {Undefined, "Mine"}}
    \cup {Params("validate_workflow", [EmptyArgs EXCEPT !.workflow = w]) :
            w \in WorkflowSamples}
    \cup {Params("get_workflow_template", [EmptyArgs EXCEPT !.templateName = t]) :
            t \in {"webhook_slack", "email_processor", "data_sync", "ai_chatbot",
                   "file_processor", "unknown", "", "constructor"}}

Requests ==
    {Request(j, m, NoParams, i) :
        j \in JsonrpcValues, m \in OtherMethods, i \in IdValues}
    \cup {Request(j, "tools/call", p, i) :
            j \in JsonrpcValues, p \in ToolCallParams, i \in IdValues}

NoRequest == Request(Undefined, Undefined, NoParams, Undefined)

Line(k, r) == [json |-> k, request |-> r]
NoLine == Line("none", NoRequest)

Lines ==
    {Line("malformed", NoRequest), Line("null", NoRequest)}
    \cup {Line("object", r) : r \in Requests}

\* the lines of the input streams whose transcript is kept: requests with and
\* without id, with a valid and an invalid envelope, answered, silent and
\* throwing (tools/call without params), and a line that is not JSON
StreamLines ==
    {Line("malformed", NoRequest)}
    \cup {Line("object", Request(j, m, NoParams, i)) :
            j \in {"2.0", "1.0"}, m \in {"tools/list", "tools/call"},
            i \in {Undefined, "1", "2"}}

\* lines that call validate_workflow, with every workflow value within MaxNodes
ValidateLines ==
    {Line("object", Request("2.0", "tools/call",
                            Params("validate_workflow",
                                   [EmptyArgs EXCEPT !.workflow = w]), "1")) :
        w \in Workflows(MaxNodes)}

\* HTTP requests: method, url, the Authorization header and the parsed body
HttpRequestOf(m, u, a, b) ==
    [method |-> m, url |-> u, headers |-> [authorization |-> a], body |-> b]

NoBody == [kind |-> "undefined", request |-> NoRequest]
ObjectBody(r) == [kind |-> "object", request |-> r]
NoHttpRequest == HttpRequestOf(Undefined, Undefined, UndefinedChars, NoBody)

Urls == {"/health", "/", "/health?probe=1"}

Schemes ==
    {Bearer, <<"b", "e", "a", "r", "e", "r", " ">>, <<"B", "a", "s", "i", "c", " ">>,
     <<"B", "e", "a", "r", "e", "r">>, <<>>}

TokenAlphabet == {"s", "x", " "}

UndefinedWord == <<"u", "n", "d", "e", "f", "i", "n", "e", "d">>

\* Authorization header values: absent, or a scheme followed by up to n characters
AuthHeaders(n) ==
    {UndefinedChars, Bearer \o UndefinedWord}
    \cup {p \o t : p \in Schemes, t \in SeqsUpTo(TokenAlphabet, n)}

HeaderSamples ==
    {UndefinedChars, Bearer \o <<"s">>, Bearer \o <<"x">>,
     Bearer \o <<" ", "s", " ">>, <<"B", "a", "s", "i", "c", " ", "s">>}

HttpToolCallParams ==
    {NoParams, [NoParams EXCEPT !.kind = "null"], Params(Undefined, NoArgs)}
    \cup {Params(n, a) :
            n \in {HttpTools[i].name : i \in 1..Len(HttpTools)}
                  \cup {"get_node_documentation", "unknown_tool"},
            a \in {NoArgs, EmptyArgs}}
    \cup {Params("get_node_info", [EmptyArgs EXCEPT !.nodeName = n]) :
            n \in {"Slack", "constructor"}}
    \cup {Params("search_nodes", [EmptyArgs EXCEPT !.query = <<"G", "i", "t">>])}

HttpBodies ==
    {NoBody}
    \cup {ObjectBody(Request(j, m, NoParams, i)) :
            j \in {Undefined, "2.0", "1.0"}, m \in OtherMethods, i \in IdValues}
    \cup {ObjectBody(Request(j, "tools/call", p, i)) :
            j \in {Undefined, "2.0", "1.0"}, p \in HttpToolCallParams, i \in IdValues}

HttpRequests ==
    {HttpRequestOf(m, u, a, NoBody) :
        m \in {"GET", "OPTIONS", "PUT", "DELETE"}, u \in Urls, a \in HeaderSamples}
    \cup {HttpRequestOf("POST", u, a, b) :
            u \in {"/", "/health"}, a \in HeaderSamples, b \in HttpBodies}

\* POST requests with every header value within MaxTokenLen
AuthRequests ==
    {HttpRequestOf("POST", "/", a, b) :
        a \in AuthHeaders(MaxTokenLen),
        b \in {NoBody, ObjectBody(Request("2.0", "tools/list", NoParams, "1")),
               ObjectBody(Request(Undefined, "tools/list", NoParams, "1")),
               ObjectBody(Request("2.0", "ping", NoParams, Undefined))}}

ApiRequests ==
    {HttpRequestOf(m, u, a, NoBody) :
        m \in {"GET", "POST", "OPTIONS", "PUT"}, u \in Urls,
        a \in {UndefinedChars, Bearer \o <<"s">>, Bearer \o <<"x">>}}

EnvOf(n, a) == [N8N_MCP_AUTH_TOKEN |-> n, AUTH_TOKEN |-> a]

\* process.env before module load, main specification
EnvSamples ==
    {EnvOf(<<"s">>, UndefinedChars), EnvOf(UndefinedChars, <<"x">>)}

\* process.env before module load, authentication specification
AuthEnvs ==
    {EnvOf(n, a) : n \in {UndefinedChars, <<>>, <<"s">>},
                   a \in {UndefinedChars, <<>>, <<"x">>, <<" ", "s">>, <<"s", " ", "x">>}}

-----------------------------------------------------------------------------
(* State machine *)

NoTranscript == [on |-> FALSE, handled |-> <<>>, stdout |-> <<>>]

InitWith(envs, recording) ==
    /\ tools = StdioTools
    /\ httpTools = HttpTools
    /\ env \in {ModuleLoad(e) : e \in envs}
    /\ phase = "idle"
    /\ line = NoLine
    /\ written = <<>>
    /\ logged = 0
    /\ invoked = {}
    /\ firstToolsList = [seen |-> FALSE, tools |-> <<>>]
    /\ toolCalled = FALSE
    /\ malformedSeen = FALSE
    /\ transcript = [NoTranscript EXCEPT !.on = recording]
    /\ httpReq = NoHttpRequest
    /\ httpRes = NewResponse
    /\ apiReq = NoHttpRequest
    /\ apiRes = NewResponse

Init == InitWith(EnvSamples, FALSE)

InitAuth == InitWith(AuthEnvs, FALSE)

\* One 'line' event of the stdio server, handled to completion
HandleLine(l) ==
    LET r == OnLine(tools, l)
    IN  /\ phase = "idle"
        /\ transcript.on => Len(transcript.handled) < MaxLines
        /\ phase' = "stdio"
        /\ line' = l
        /\ written' = r.out
        /\ logged' = r.logged
        /\ invoked' = r.calls
        /\ firstToolsList' =
              IF ~firstToolsList.seen /\ Len(r.out) > 0 /\ r.out[1].result.kind = "tools"
              THEN [seen |-> TRUE, tools |-> r.out[1].result.tools]
              ELSE firstToolsList
        /\ toolCalled' = (toolCalled \/ "handleToolsCall" \in r.calls)
        /\ malformedSeen' = (malformedSeen \/ l.json = "malformed")
        /\ transcript' =
              IF transcript.on
              THEN [transcript EXCEPT
                        !.handled = Append(@, [line |-> l, answers |-> Len(r.out)]),
                        !.stdout = sendMessage(@, r.out)]
              ELSE transcript
        /\ UNCHANGED <<tools, httpTools, env, httpReq, httpRes, apiReq, apiRes>>

\* One invocation of the exported HTTP handler
HandleHttp(q) ==
    LET r == HttpHandler(httpTools, env, q, NewResponse)
    IN  /\ phase = "idle"
        /\ phase' = "http"
        /\ httpReq' = q
        /\ httpRes' = r.res
        /\ invoked' = r.calls
        /\ UNCHANGED <<tools, httpTools, env, line, written, logged, firstToolsList,
                       toolCalled, malformedSeen, transcript, apiReq, apiRes>>

\* One invocation of the api/index.js handler
HandleApi(q) ==
    LET r == ApiHandler(q, NewResponse)
    IN  /\ phase = "idle"
        /\ phase' = "api"
        /\ apiReq' = q
        /\ apiRes' = r.res
        /\ invoked' = r.calls
        /\ UNCHANGED <<tools, httpTools, env, line, written, logged, firstToolsList,
                       toolCalled, malformedSeen, transcript, httpReq, httpRes>>

StdioLine    == \E l \in Lines : HandleLine(l)
ValidateLine == \E l \in ValidateLines : HandleLine(l)
StreamLine   == \E l \in StreamLines : HandleLine(l)
HttpRequest  == \E q \in HttpRequests : HandleHttp(q)
AuthRequest  == \E q \in AuthRequests : HandleHttp(q)
ApiRequest   == \E q \in ApiRequests : HandleApi(q)

\* The handler has returned; the process waits for the next line or request
Await ==
    /\ phase # "idle"
    /\ phase' = "idle"
    /\ line' = NoLine
    /\ written' = <<>>
    /\ logged' = 0
    /\ invoked' = {}
    /\ httpReq' = NoHttpRequest
    /\ httpRes' = NewResponse
    /\ apiReq' = NoHttpRequest
    /\ apiRes' = NewResponse
    /\ UNCHANGED <<tools, httpTools, env, firstToolsList, toolCalled, malformedSeen,
                   transcript>>

Next == StdioLine \/ HttpRequest \/ ApiRequest \/ Await

Spec == Init /\ [][Next]_vars

\* validate_workflow applied once to each workflow value
InitValidate == InitWith({EnvOf(UndefinedChars, UndefinedChars)}, FALSE)

SpecValidate == InitValidate /\ [][ValidateLine]_vars

NextAuth == AuthRequest \/ Await

\* an input stream of at most MaxLines lines, with its transcript
InitStream == InitWith({EnvOf(UndefinedChars, UndefinedChars)}, TRUE)

NextStream == StreamLine \/ Await

SpecStream == InitStream /\ [][NextStream]_vars

SpecAuth == InitAuth /\ [][NextAuth]_vars

-----------------------------------------------------------------------------
(* Properties *)

\* the exchange just completed, by transport
StdioHandled == phase = "stdio" /\ line.json = "object"
HttpDispatched == phase = "http" /\ "handleMCPRequest" \in invoked
                  /\ httpReq.body.kind = "object"

InvalidRequestMessage == ErrorMessage(-32600, <<"Invalid Request">>, Null)

RecognizedMethods ==
    {"initialize", "tools/list", "tools/call", "resources/list", "prompts/list"}

\* C1: in handleRequest (stdio) and in handleMCPRequest (HTTP, behind the
\* auth gate), a request object whose jsonrpc field is absent or is not the
\* string '2.0' gets exactly {jsonrpc:'2.0', error:{code:-32600,
\* message:'Invalid Request'}, id:null}, whatever its method, params and id,
\* and no method handler is entered.
C1_InvalidEnvelopeRejected ==
    /\ (StdioHandled /\ line.request.jsonrpc # "2.0")
          => /\ written = <<InvalidRequestMessage>>
             /\ invoked = {"handleRequest"}
    /\ (HttpDispatched /\ httpReq.body.request.jsonrpc # "2.0")
          => /\ httpRes.body = Body("jsonrpc", InvalidRequestMessage, Undefined)
             /\ invoked = {"handleMCPRequest"}

C1_Witness ==
    /\ StdioHandled
    /\ line.request.jsonrpc = "1.0"
    /\ line.request.method = "tools/call"
    /\ line.request.params.name = "validate_workflow"
    /\ line.request.id = "1"
    /\ written = <<InvalidRequestMessage>>

\* C2 as stated: a request object read by the stdio server that has no id
\* field causes no message on standard output, whatever its jsonrpc value,
\* method and params.
C2_NoIdNoOutput ==
    (StdioHandled /\ line.request.id = Undefined) => written = <<>>

\* C2 amended: a request object with jsonrpc '2.0' and no id field causes no
\* message on standard output, whatever its method and params; without id and
\* with a jsonrpc field that is absent or not '2.0', the Invalid Request
\* error (id null) is written.
C2_NotificationNoOutput ==
    (StdioHandled /\ line.request.id = Undefined)
        => IF line.request.jsonrpc = "2.0"
           THEN written = <<>> /\ logged = 0
           ELSE written = <<InvalidRequestMessage>>

C2_Witness ==
    /\ StdioHandled
    /\ line.request.id = Undefined
    /\ line.request.jsonrpc = "2.0"
    /\ line.request.method = "tools/call"
    /\ line.request.params.name = "get_node_info"
    /\ written = <<>>

Unauthorized(res) ==
    /\ res.statusCode = 401
    /\ res.body.kind = "jsonrpc"
    /\ res.body.rpc.error.present
    /\ res.body.rpc.error.code = -32001
    /\ ~res.body.rpc.result.present

NoAuthorizationHeader(req) == req.headers.authorization = UndefinedChars

\* C3 as stated: an HTTP request without Authorization header that is not
\* GET /health (any HTTP method, any path) is answered 401 with JSON-RPC error
\* -32001 and is never dispatched to a JSON-RPC method.
C3_NoHeaderUnauthorized ==
    /\ (/\ phase = "http"
        /\ NoAuthorizationHeader(httpReq)
        /\ ~(httpReq.method = "GET" /\ httpReq.url = "/health"))
          => Unauthorized(httpRes) /\ invoked = {}
    /\ (/\ phase = "api"
        /\ NoAuthorizationHeader(apiReq)
        /\ ~(apiReq.method = "GET" /\ apiReq.url = "/health"))
          => Unauthorized(apiRes) /\ invoked = {}

\* C3 amended: in the HTTP handler with the auth gate, a POST request without
\* Authorization header (any path, any body) is answered 401 with JSON-RPC
\* error -32001 and is never dispatched; a request without the header and
\* with another HTTP method is never dispatched either and is answered 200
\* (preflight, health or info), not 401.  The api/index.js stub answers every
\* request 200 and dispatches nothing.
C3_NoHeaderPostUnauthorized ==
    /\ (phase = "http" /\ NoAuthorizationHeader(httpReq))
          => /\ invoked = {}
             /\ IF httpReq.method = "POST" THEN Unauthorized(httpRes)
                ELSE httpRes.statusCode = 200 /\ httpRes.body.kind # "jsonrpc"
    /\ phase = "api" => apiRes.statusCode = 200 /\ invoked = {}

C3_Witness ==
    /\ phase = "http"
    /\ NoAuthorizationHeader(httpReq)
    /\ httpReq.method = "POST"
    /\ httpReq.url = "/health"
    /\ httpReq.body.kind = "object"
    /\ httpReq.body.request.method = "tools/call"
    /\ Unauthorized(httpRes)

\* The header has the form 'Bearer <token>' with <token> equal to the secret:
\* the scheme 'Bearer ' and then the token, white space around the token not
\* being part of it.  An unset secret equals no token.
BearerTokenIs(header, secret) ==
    /\ header # UndefinedChars
    /\ secret # UndefinedChars
    /\ Len(header) >= 7
    /\ SubSeq(header, 1, 7) = <<"B", "e", "a", "r", "e", "r", " ">>
    /\ \E i \in 8..(Len(header) + 1) : \E j \in (i - 1)..Len(header) :
          /\ SubSeq(header, i, j) = secret
          /\ \A k \in 8..(i - 1) : header[k] \in {" ", "\t"}
          /\ \A k \in (j + 1)..Len(header) : header[k] \in {" ", "\t"}
          /\ j >= i => (header[i] \notin {" ", "\t"} /\ header[j] \notin {" ", "\t"})

\* C4: a POST is handed to the JSON-RPC dispatcher if and only if its
\* Authorization header has the form 'Bearer <token>' with <token> equal to
\* the configured AUTH_TOKEN; every other POST (wrong scheme, wrong token,
\* missing header) gets 401 / -32001 and no method or tool handler runs.
C4_DispatchIffBearerSecret ==
    (phase = "http" /\ httpReq.method = "POST")
        => /\ ("handleMCPRequest" \in invoked)
                <=> BearerTokenIs(httpReq.headers.authorization, env.AUTH_TOKEN)
           /\ ("handleMCPRequest" \notin invoked)
                => Unauthorized(httpRes) /\ invoked = {}

C4_Witness ==
    /\ phase = "http"
    /\ httpReq.method = "POST"
    /\ httpReq.headers.authorization = Bearer \o <<"x">>
    /\ env.AUTH_TOKEN = <<"x">>
    /\ invoked = {"handleMCPRequest", "handleToolsList"}
    /\ httpRes.statusCode = 200

HealthAnswer(res) ==
    /\ res.statusCode = 200
    /\ res.body.kind = "health"
    /\ res.body.status = "ok"

\* C5 as stated: a request to the /health path is answered 200 with the
\* status JSON ('status':'ok'), the Authorization header not being consulted.
C5_HealthPathBypassesAuth ==
    /\ (phase = "http" /\ httpReq.url = "/health") => HealthAnswer(httpRes)
    /\ (phase = "api" /\ apiReq.url = "/health") => HealthAnswer(apiRes)

\* C5 amended: a GET request whose URL is exactly /health is answered 200
\* with the status JSON ('status':'ok'), and the answer is the one the same
\* request gets with any other Authorization header (none, a wrong token,
\* the right token); no handler is entered.
C5_GetHealthBypassesAuth ==
    /\ (phase = "http" /\ httpReq.method = "GET" /\ httpReq.url = "/health")
          => /\ HealthAnswer(httpRes)
             /\ invoked = {}
             /\ \A a \in HeaderSamples :
                   HttpHandler(httpTools, env,
                               [httpReq EXCEPT !.headers.authorization = a],
                               NewResponse).res = httpRes
    /\ (phase = "api" /\ apiReq.method = "GET" /\ apiReq.url = "/health")
          => HealthAnswer(apiRes)

C5_Witness ==
    /\ phase = "http"
    /\ httpReq.method = "GET"
    /\ httpReq.url = "/health"
    /\ httpReq.headers.authorization = Bearer \o <<"x">>
    /\ env.AUTH_TOKEN = <<"s">>
    /\ HealthAnswer(httpRes)

ToolNamesInOrder ==
    <<"list_nodes", "get_node_info", "search_nodes", "get_node_documentation",
      "list_node_categories", "create_test_workflow", "validate_workflow",
      "get_workflow_template">>

IsToolsListRequest ==
    /\ StdioHandled
    /\ line.request.jsonrpc = "2.0"
    /\ line.request.id # Undefined
    /\ line.request.method = "tools/list"

\* C6: after any sequence of handled lines (tools/call of every tool and
\* malformed lines included) a tools/list request of the stdio server returns
\* the same array of 8 descriptors, in the same order, as the first tools/list
\* request did; the catalog is never mutated.
C6_ToolsListStable ==
    /\ tools = StdioTools
    /\ IsToolsListRequest
          => /\ Len(written) = 1
             /\ written[1].result.present /\ ~written[1].error.present
             /\ written[1].id = line.request.id
             /\ Len(written[1].result.tools) = 8
             /\ [i \in 1..8 |-> written[1].result.tools[i].name] = ToolNamesInOrder
             /\ firstToolsList.seen
             /\ written[1].result.tools = firstToolsList.tools

C6_Witness ==
    /\ IsToolsListRequest
    /\ toolCalled
    /\ firstToolsList.seen
    /\ written[1].result.tools = firstToolsList.tools

\* C7: a request with jsonrpc '2.0' and an id whose method is none of
\* initialize, tools/list, tools/call, resources/list, prompts/list is
\* answered, by either dispatcher, with error -32601 'Method not found'
\* carrying the request's id, and with no result.
C7_MethodNotFound ==
    /\ (/\ StdioHandled
        /\ line.request.jsonrpc = "2.0"
        /\ line.request.id # Undefined
        /\ line.request.method \notin RecognizedMethods)
          => written = <<ErrorMessage(-32601, <<"Method not found">>, line.request.id)>>
    /\ (/\ HttpDispatched
        /\ httpReq.body.request.jsonrpc = "2.0"
        /\ httpReq.body.request.id # Undefined
        /\ httpReq.body.request.method \notin RecognizedMethods)
          => httpRes.body =
                Body("jsonrpc", ErrorMessage(-32601, <<"Method not found">>,
                                             httpReq.body.request.id), Undefined)

C7_Witness ==
    /\ StdioHandled
    /\ line.request.jsonrpc = "2.0"
    /\ line.request.id = "1"
    /\ line.request.method = "notifications/initialized"
    /\ Len(written) = 1
    /\ written[1].error.code = -32601

\* C8: a tools/call request with an id (and a params object) whose
\* params.name is not the name of a tool implemented by that variant's
\* dispatcher is answered with error -32601 'Tool not found' carrying the
\* request's id.
C8_ToolNotFound ==
    /\ (/\ StdioHandled
        /\ line.request.jsonrpc = "2.0"
        /\ line.request.id # Undefined
        /\ line.request.method = "tools/call"
        /\ line.request.params.kind = "object"
        /\ line.request.params.name \notin
              {ToolNamesInOrder[i] : i \in 1..Len(ToolNamesInOrder)})
          => written = <<ErrorMessage(-32601, <<"Tool not found">>, line.request.id)>>
    /\ (/\ HttpDispatched
        /\ httpReq.body.request.jsonrpc = "2.0"
        /\ httpReq.body.request.id # Undefined
        /\ httpReq.body.request.method = "tools/call"
        /\ httpReq.body.request.params.kind = "object"
        /\ httpReq.body.request.params.name \notin
              {"list_nodes", "get_node_info", "search_nodes"})
          => httpRes.body =
                Body("jsonrpc", ErrorMessage(-32601, <<"Tool not found">>,
                                             httpReq.body.request.id), Undefined)

C8_Witness ==
    /\ StdioHandled
    /\ line.request.jsonrpc = "2.0"
    /\ line.request.id = "1"
    /\ line.request.method = "tools/call"
    /\ line.request.params.name = "unknown_tool"
    /\ Len(written) = 1
    /\ written[1].error.code = -32601
    /\ written[1].id = "1"

\* a value that is present and not the empty string
NonEmpty(v) == v \notin {Undefined, Null, ""}

GenericNodeInfo ==
    [description |-> "A powerful n8n node for workflow automation",
     category |-> "General",
     properties |-> <<"Various configuration options">>,
     examples |-> <<"Workflow automation", "Data processing", "Integration">>]

\* C9: get_node_info and get_node_documentation, called with a nodeName
\* string that is not a key of the handler's table, answer with a result
\* (never an error, never nothing); for get_node_info its text is the generic
\* fallback description with that nodeName interpolated.  (Stated for
\* non-empty names: the handlers read '' as an absent nodeName and use their
\* default, 'HTTP Request'.)
C9_UnknownNodeFallback ==
    (/\ StdioHandled
     /\ line.request.jsonrpc = "2.0"
     /\ line.request.id # Undefined
     /\ line.request.method = "tools/call"
     /\ line.request.params.kind = "object"
     /\ line.request.params.arguments.kind = "object"
     /\ NonEmpty(line.request.params.arguments.nodeName)
     /\ \/ /\ line.request.params.name = "get_node_info"
           /\ line.request.params.arguments.nodeName
                 \notin {"HTTP Request", "Function", "If"}
        \/ /\ line.request.params.name = "get_node_documentation"
           /\ line.request.params.arguments.nodeName # "HTTP Request")
        => /\ Len(written) = 1
           /\ written[1].result.present
           /\ ~written[1].error.present
           /\ written[1].id = line.request.id
           /\ line.request.params.name = "get_node_info"
                 => written[1].result.text =
                       NodeInfoText(line.request.params.arguments.nodeName,
                                    GenericNodeInfo)

IsValidateResult ==
    /\ StdioHandled
    /\ line.request.params.name = "validate_workflow"
    /\ Len(written) = 1
    /\ written[1].result.present

ValidatedWorkflow == line.request.params.arguments.workflow

\* a non-empty name, a nodes array whose nodes all have id, name, type and a
\* two-element position array, and a connections object whose values are objects
WellFormed(w) ==
    /\ w.kind = "object"
    /\ NonEmpty(w.name)
    /\ w.nodes.kind = "array"
    /\ \A i \in 1..Len(w.nodes.items) :
          /\ w.nodes.items[i].kind = "object"
          /\ NonEmpty(w.nodes.items[i].id)
          /\ NonEmpty(w.nodes.items[i].name)
          /\ NonEmpty(w.nodes.items[i].type)
          /\ w.nodes.items[i].position = Position("array", 2)
    /\ w.connections.kind = "object"
    /\ \A i \in 1..Len(w.connections.vals) : w.connections.vals[i].kind = "object"

\* C10: validate_workflow reports VALID exactly when it accumulated no error
\* (warnings do not change the status); every well-formed workflow, such as
\* {name:'x', nodes:[], connections:{}}, yields VALID with errors = 0.
C10_ValidIffNoErrors ==
    IsValidateResult
        => /\ written[1].result.summary.errors = Len(written[1].result.errors)
           /\ written[1].result.summary.warnings = Len(written[1].result.warnings)
           /\ (written[1].result.summary.status = "VALID")
                 <=> (Len(written[1].result.errors) = 0)
           /\ written[1].result.summary.status \in {"VALID", "INVALID"}
           /\ WellFormed(ValidatedWorkflow)
                 => /\ written[1].result.summary.status = "VALID"
                    /\ written[1].result.summary.errors = 0

C10_Witness ==
    /\ IsValidateResult
    /\ WellFormed(ValidatedWorkflow)
    /\ Len(ValidatedWorkflow.nodes.items) = 2
    /\ written[1].result.summary.status = "VALID"
    /\ written[1].result.summary.warnings = 1

IsValidateRequest ==
    /\ StdioHandled
    /\ line.request.jsonrpc = "2.0"
    /\ line.request.id # Undefined
    /\ line.request.method = "tools/call"
    /\ line.request.params.kind = "object"
    /\ line.request.params.name = "validate_workflow"

\* membership in a sequence
Among(x, q) == \E i \in 1..Len(q) : q[i] = x

\* C11: validate_workflow given a workflow object without a nodes field answers
\* with a result (not a JSON-RPC error) whose status is INVALID, whose error
\* count is at least 1, whose errors include 'Missing or invalid nodes array',
\* and whose node count is 0.
C11_MissingNodesInvalid ==
    (/\ IsValidateRequest
     /\ ValidatedWorkflow.kind = "object"
     /\ ValidatedWorkflow.nodes.kind = "undefined")
        => /\ Len(written) = 1
           /\ written[1].result.present
           /\ ~written[1].error.present
           /\ written[1].id = line.request.id
           /\ written[1].result.summary.status = "INVALID"
           /\ written[1].result.summary.errors >= 1
           /\ Among(<<"Missing or invalid nodes array">>, written[1].result.errors)
           /\ written[1].result.summary.nodes = 0

C11_Witness ==
    /\ IsValidateRequest
    /\ ValidatedWorkflow.kind = "object"
    /\ ValidatedWorkflow.name = "x"
    /\ ValidatedWorkflow.nodes.kind = "undefined"
    /\ ValidatedWorkflow.connections = [kind |-> "object", vals |-> <<>>]
    /\ Len(written) = 1
    /\ written[1].result.summary.status = "INVALID"
    /\ written[1].result.errors = <<<<"Missing or invalid nodes array">>>>

\* C12: validate_workflow called without a workflow argument (arguments
\* absent, or workflow absent or null) answers with the JSON-RPC error -32602
\* 'Workflow object is required' carrying the request's id; it has no result,
\* so none of the structure checks is reported.
C12_WorkflowRequired ==
    (/\ IsValidateRequest
     /\ \/ line.request.params.arguments.kind = "undefined"
        \/ ValidatedWorkflow.kind \in {"undefined", "null"})
        => /\ written = <<ErrorMessage(-32602, <<"Workflow object is required">>,
                                      line.request.id)>>
           /\ logged = 0

C12_Witness ==
    /\ IsValidateRequest
    /\ line.request.params.arguments.kind = "object"
    /\ ValidatedWorkflow.kind = "null"
    /\ line.request.id = "1"
    /\ Len(written) = 1
    /\ written[1].error.code = -32602
    /\ written[1].id = "1"

IsToolCall(tool) ==
    /\ StdioHandled
    /\ line.request.jsonrpc = "2.0"
    /\ line.request.id # Undefined
    /\ line.request.method = "tools/call"
    /\ line.request.params.kind = "object"
    /\ line.request.params.name = tool

\* C13: create_test_workflow called with a non-empty workflowType string that
\* is none of webhook_to_slack, manual_to_http, schedule_to_email, ai_agent,
\* data_processing answers with the JSON-RPC error -32602 whose message names
\* that workflowType, and returns no workflow.
C13_UnknownWorkflowType ==
    (/\ IsToolCall("create_test_workflow")
     /\ line.request.params.arguments.kind = "object"
     /\ NonEmpty(line.request.params.arguments.workflowType)
     /\ line.request.params.arguments.workflowType \notin
           {"webhook_to_slack", "manual_to_http", "schedule_to_email", "ai_agent",
            "data_processing"})
        => written = <<ErrorMessage(-32602,
                          <<"Unknown workflow type: ",
                            line.request.params.arguments.workflowType>>,
                          line.request.id)>>

\* name contains c, letter case ignored
ContainsIgnoringCase(name, c) ==
    \E i \in 0..(Len(name) - Len(c)) :
        \A k \in 1..Len(c) : ToLowerCase(<<name[i + k]>>) = ToLowerCase(<<c[k]>>)

\* C14: list_nodes with a category string c returns exactly the names of the
\* 35-node list whose lower-cased form contains the lower-cased c, in table
\* order, with Total equal to the number of names returned; for c = 'slack'
\* these are exactly 'Slack'; with no category all 35 names are returned.
C14_ListNodesFilter ==
    IsToolCall("list_nodes")
        => LET c == IF line.request.params.arguments.kind = "object"
                    THEN line.request.params.arguments.category
                    ELSE UndefinedChars
           IN  /\ Len(written) = 1
               /\ written[1].result.present
               /\ ~written[1].error.present
               /\ written[1].id = line.request.id
               /\ written[1].result.total = Len(written[1].result.items)
               /\ Len(NodeList) = 35
               /\ c = UndefinedChars => written[1].result.items = NodeList
               /\ c # UndefinedChars
                     => written[1].result.items =
                           SelectSeq(NodeList, LAMBDA n : ContainsIgnoringCase(n, c))
               /\ c = <<"s", "l", "a", "c", "k">>
                     => written[1].result.items = << <<"S", "l", "a", "c", "k">> >>

C14_Witness ==
    /\ IsToolCall("list_nodes")
    /\ line.request.params.arguments.kind = "object"
    /\ line.request.params.arguments.category = <<"i", "t">>
    /\ Len(written) = 1
    /\ written[1].result.total = 5
    /\ written[1].result.items =
          << <<"S","p","l","i","t"," ","I","n"," ","B","a","t","c","h","e","s">>,
             <<"S","w","i","t","c","h">>, <<"W","a","i","t">>,
             <<"G","i","t","H","u","b">>, <<"G","i","t","L","a","b">> >>

\* C15: in the stdio server a line that is not parseable JSON produces no
\* output message and enters no handler, and it leaves the server as it was:
\* the catalog is the constructor's, and every well-formed request handled
\* after it gets the answer a server that has read nothing else gives it.
C15_MalformedLineSkipped ==
    /\ tools = StdioTools
    /\ (phase = "stdio" /\ line.json = "malformed")
          => written = <<>> /\ invoked = {} /\ logged = 1
    /\ (StdioHandled /\ malformedSeen)
          => written = handleRequest(StdioTools, line.request).out

C15_Witness ==
    /\ IsToolsListRequest
    /\ malformedSeen
    /\ Len(written) = 1
    /\ Len(written[1].result.tools) = 8

\* C16: HTTP handler: every response it sends (health, preflight, 401,
\* JSON-RPC results and errors, the default info response and the 500
\* response of the catch) carries the headers Access-Control-Allow-Origin,
\* Access-Control-Allow-Methods and Access-Control-Allow-Headers.
C16_CorsOnEveryResponse ==
    phase = "http"
        => /\ httpRes.headersSent
           /\ httpRes.body.kind # "none"
           /\ {"Access-Control-Allow-Origin", "Access-Control-Allow-Methods",
               "Access-Control-Allow-Headers"} \subseteq httpRes.headers

C16_Witness ==
    /\ phase = "http"
    /\ httpReq.method = "POST"
    /\ httpRes.statusCode = 500
    /\ httpRes.body.kind = "error"
    /\ "Access-Control-Allow-Headers" \in httpRes.headers

\* C17: in the stdio server every parsed request with jsonrpc '2.0' and an id,
\* whatever its method, params and tool arguments (a tools/call without params
\* included), causes exactly one message to be written, and that message
\* carries the request's id and exactly one of result and error.
C17_ExactlyOneResponse ==
    (/\ StdioHandled
     /\ line.request.jsonrpc = "2.0"
     /\ line.request.id # Undefined)
        => /\ Len(written) = 1
           /\ written[1].id = line.request.id
           /\ written[1].result.present # written[1].error.present

\* C18: for every workflow object whose nodes field is present but is not an
\* array, validate_workflow still answers with a result of status INVALID
\* that lists 'Missing or invalid nodes array' together with the outcomes of
\* the name check and of the connections check.
C18_NonArrayNodesInvalid ==
    (/\ IsValidateRequest
     /\ ValidatedWorkflow.kind = "object"
     /\ ValidatedWorkflow.nodes.kind \notin {"undefined", "array"})
        => /\ Len(written) = 1
           /\ written[1].result.present
           /\ ~written[1].error.present
           /\ written[1].result.summary.status = "INVALID"
           /\ Among(<<"Missing or invalid nodes array">>, written[1].result.errors)
           /\ Among(<<"Missing workflow name">>, written[1].result.errors)
                 <=> ValidatedWorkflow.name \in {Undefined, ""}
           /\ Among(<<"Missing or invalid connections object">>,
                    written[1].result.errors)
                 <=> ValidatedWorkflow.connections.kind \notin {"object", "array"}

\* the ids of the messages on standard output, in order
OutputIds == [i \in 1..Len(transcript.stdout) |-> transcript.stdout[i].id]

\* the handled lines that were answered, in input order
Responding == SelectSeq(transcript.handled, LAMBDA h : h.answers > 0)

\* C19 as stated: the sequence of ids on output is the subsequence of the
\* input ids of the responding requests, in the same order.
C19_OutputIdsAreInputIds ==
    OutputIds = [i \in 1..Len(Responding) |-> Responding[i].line.request.id]

\* C19 amended: lines are handled one at a time in input order, the messages
\* of a line being on output before the next line is handled: the responses
\* appear in the input order of the lines that got one, at most one per line,
\* and each carries its request's id, except the Invalid Request response,
\* which carries id null whatever the request's id.
C19_ResponsesInInputOrder ==
    /\ \A i \in 1..Len(transcript.handled) : transcript.handled[i].answers <= 1
    /\ OutputIds =
          [i \in 1..Len(Responding) |->
              IF Responding[i].line.request.jsonrpc = "2.0"
              THEN Responding[i].line.request.id ELSE Null]
    /\ (transcript.on /\ phase = "stdio")
          => /\ Len(written) <= Len(transcript.stdout)
             /\ SubSeq(transcript.stdout,
                       Len(transcript.stdout) - Len(written) + 1,
                       Len(transcript.stdout)) = written

C19_Witness ==
    /\ Len(transcript.handled) = 3
    /\ transcript.handled[1].line.request.id = "1"
    /\ transcript.handled[2].answers = 0
    /\ transcript.handled[3].line.request.id = "2"
    /\ OutputIds = <<"1", "2">>

\* C20: every value advertised in a tool descriptor's enum is accepted by the
\* tool: get_workflow_template answers with a template result, not an error,
\* for each templateName of its enum, and create_test_workflow does for each
\* workflowType of its enum.
C20_EnumValuesAccepted ==
    \A i \in 1..Len(tools) :
        (/\ IsToolCall(tools[i].name)
         /\ line.request.params.arguments.kind = "object"
         /\ \/ /\ tools[i].name = "get_workflow_template"
               /\ Among(line.request.params.arguments.templateName, tools[i].enum)
            \/ /\ tools[i].name = "create_test_workflow"
               /\ Among(line.request.params.arguments.workflowType, tools[i].enum))
            => /\ Len(written) = 1
               /\ written[1].result.present
               /\ ~written[1].error.present

\* the names of a catalog
NamesOf(catalog) == {catalog[i].name : i \in 1..Len(catalog)}

IsHttpToolCall ==
    /\ HttpDispatched
    /\ httpReq.body.request.jsonrpc = "2.0"
    /\ httpReq.body.request.id # Undefined
    /\ httpReq.body.request.method = "tools/call"
    /\ httpReq.body.request.params.kind = "object"

\* C21: in each variant the catalog and the dispatcher agree: a tools/call of
\* a name that the variant's tools/list returns is never answered with 'Tool
\* not found', and a tools/call of any other name is (so every name the
\* dispatcher handles is in the catalog).
C21_CatalogMatchesDispatcher ==
    /\ (/\ StdioHandled
        /\ line.request.jsonrpc = "2.0"
        /\ line.request.id # Undefined
        /\ line.request.method = "tools/call"
        /\ line.request.params.kind = "object")
          => (line.request.params.name \in NamesOf(tools))
                <=> written # <<ErrorMessage(-32601, <<"Tool not found">>,
                                             line.request.id)>>
    /\ IsHttpToolCall
          => (httpReq.body.request.params.name \in NamesOf(httpTools))
                <=> httpRes.body #
                        Body("jsonrpc", ErrorMessage(-32601, <<"Tool not found">>,
                                                     httpReq.body.request.id),
                             Undefined)

C21_Witness ==
    /\ IsHttpToolCall
    /\ httpReq.body.request.params.name = "search_nodes"
    /\ httpReq.body.request.params.name \in NamesOf(httpTools)
    /\ httpRes.statusCode = 200
    /\ httpRes.body.rpc.result.present

\* C22: for a POST the authentication check comes before any inspection of
\* the JSON-RPC envelope: a POST that is not authenticated is answered with
\* the -32001 error, never with -32600, -32601 or a result, also when its
\* body is a malformed envelope, a notification or an unknown method.
C22_AuthBeforeEnvelope ==
    (/\ phase = "http"
     /\ httpReq.method = "POST"
     /\ ~BearerTokenIs(httpReq.headers.authorization, env.AUTH_TOKEN))
        => /\ httpRes.statusCode = 401
           /\ httpRes.body.kind = "jsonrpc"
           /\ httpRes.body.rpc.error.present
           /\ httpRes.body.rpc.error.code = -32001
           /\ httpRes.body.rpc.error.code \notin {-32600, -32601}
           /\ ~httpRes.body.rpc.result.present
           /\ "handleMCPRequest" \notin invoked

C22_Witness ==
    /\ phase = "http"
    /\ httpReq.method = "POST"
    /\ httpReq.headers.authorization = Bearer \o <<"x">>
    /\ env.AUTH_TOKEN = <<"s">>
    /\ httpReq.body.kind = "object"
    /\ httpReq.body.request.jsonrpc = "1.0"
    /\ httpReq.body.request.id = Undefined
    /\ httpRes.statusCode = 401
    /\ httpRes.body.rpc.error.code = -32001

\* C23: the HTTP variant fails closed: with neither N8N_MCP_AUTH_TOKEN nor
\* AUTH_TOKEN set, every POST is rejected with 401 / -32001 whatever its
\* Authorization header is, 'Bearer ' followed by an empty token or by the
\* text 'undefined' included.
C23_FailsClosed ==
    (/\ phase = "http"
     /\ httpReq.method = "POST"
     /\ env.N8N_MCP_AUTH_TOKEN = UndefinedChars
     /\ env.AUTH_TOKEN = UndefinedChars)
        => Unauthorized(httpRes) /\ invoked = {}

C23_Witness ==
    /\ phase = "http"
    /\ httpReq.method = "POST"
    /\ env.N8N_MCP_AUTH_TOKEN = UndefinedChars
    /\ env.AUTH_TOKEN = UndefinedChars
    /\ httpReq.headers.authorization =
          <<"B", "e", "a", "r", "e", "r", " ", "u", "n", "d", "e", "f", "i", "n", "e", "d">>
    /\ Unauthorized(httpRes)

====
